---------------------------- MODULE Spec2Model ----------------------------
(***************************************************************************)
(* Model of the Orecpp time components: DateComponents (calendar triple    *)
(* <-> J2000 day-count, ISO week dates), TimeComponents (seconds of day -> *)
(* hour / minute / second), DateTimeComponents (shift by an offset in      *)
(* seconds, offsetFrom) and their comparison and hash operators.           *)
(*                                                                         *)
(* All the operations are pure functions of their arguments.  A behaviour  *)
(* is one call sequence: Init draws the arguments of a construction, an    *)
(* action applies the constructor, a further action applies the comparison *)
(* operators to the value built and a second value.                        *)
(***************************************************************************)
EXTENDS Integers, Sequences, FiniteSets, TLC

VARIABLES
    pc,      \* "new": arguments drawn; "built": constructor returned; "compared"
    src,     \* the call: [op, a, b, c, d]
    date,    \* DateComponents value: [year, month, day]
    other,   \* right-hand operand of operator< / operator== / offsetFrom;
             \* the time built from the split arguments
    cmp,     \* the values returned: [lt, gt, eq] of date < other,
             \* other < date, date == other; the offsets; the hash codes;
             \* the seconds in the local day;
             \* the values of a factory call
    time,    \* TimeComponents value: [hour, minute, second, minutesFromUTC]
    thrown   \* TRUE iff the constructor left by an exception

vars == <<pc, src, date, other, cmp, time, thrown>>

---------------------------------------------------------------------------
(* C++ integer arithmetic: / truncates toward zero, % has the sign of the  *)
(* dividend.  Divisors are positive everywhere in the sources.             *)

CDiv(a, b) == IF a >= 0 THEN a \div b ELSE (a + (b - 1)) \div b

CMod(a, b) == a - b * CDiv(a, b)

\* int is 32 bits wide and long 64: INT_MIN, INT_MAX
IntMin == -2147483647 - 1

IntMax == 2147483647

\* int + int: a sum that leaves the 32-bit range wraps around
Add32(a, b) ==
    IF a >= 0 /\ b >= 0 /\ a > IntMax - b
    THEN (a + IntMin) + (b + IntMin)
    ELSE IF a < 0 /\ b < 0 /\ a < IntMin - b
         THEN ((a + IntMax) + 1) + ((b + IntMax) + 1)
         ELSE a + b

\* int - int, wrapping around likewise
Sub32(a, b) ==
    IF b = IntMin
    THEN (IF a >= 0 THEN a + IntMin ELSE (a + IntMax) + 1)
    ELSE Add32(a, -b)

\* (k * j2000Day + c) / n, the sum and the product being of type long:
\* with j2000Day = n q + r the dividend is n (k q) + (k r + c), and the
\* quotient is formed from the two parts, each within 32 bits.
LongQuotient(k, j2000Day, c, n) ==
    LET q     == j2000Day \div n
        r     == j2000Day % n
        floor == k * q + ((k * r + c) \div n)
    IN  IF floor >= 0 \/ (k * r + c) % n = 0 THEN floor ELSE floor + 1

---------------------------------------------------------------------------
(* MonthDayFactory variants, DateComponents.cpp:30-88                      *)

LeapPreviousMonthEndDay ==
    <<0, 0, 31, 60, 91, 121, 152, 182, 213, 244, 274, 305, 335>>

CommonPreviousMonthEndDay ==
    <<0, 0, 31, 59, 90, 120, 151, 181, 212, 243, 273, 304, 334>>

\* PREVIOUS_MONTH_END_DAY[month]: a C array of 13 entries indexed from 0
PreviousMonthEndDay(leap, month) ==
    IF leap THEN LeapPreviousMonthEndDay[month + 1]
            ELSE CommonPreviousMonthEndDay[month + 1]

\* A month outside 0..12 indexes outside the array: the read is undefined
\* and yields whatever integer lies there, one of a few values here.
OutOfArray == {0, 31, 365}

PreviousMonthEndDayOutcomes(leap, month) ==
    IF month \in 0..12 THEN {PreviousMonthEndDay(leap, month)} ELSE OutOfArray

LeapGetMonth(dayInYear) ==
    IF dayInYear < 32 THEN 1 ELSE CDiv(10 * dayInYear + 313, 306)

CommonGetMonth(dayInYear) ==
    IF dayInYear < 32 THEN 1 ELSE CDiv(10 * dayInYear + 323, 306)

\* getMonth / getDay / getDayInYear through the factory chosen
GetMonth(leap, dayInYear) ==
    IF leap THEN LeapGetMonth(dayInYear) ELSE CommonGetMonth(dayInYear)

\* GetDay counting the days of the month from 0
GetDayFromZero(leap, dayInYear, month) ==
    dayInYear - PreviousMonthEndDay(leap, month) - 1

GetDay(leap, dayInYear, month) == dayInYear - PreviousMonthEndDay(leap, month)

GetDayInYear(leap, month, day) == day + PreviousMonthEndDay(leap, month)

---------------------------------------------------------------------------
(* YearFactory variants, DateComponents.cpp:116-191                        *)

ProlepticGetYear(j2000Day) == -LongQuotient(-4, j2000Day, -2920488, 1461)

\* ProlepticLastDay with the quotient rounded toward minus infinity
ProlepticLastDayFloor(year) ==
    Sub32(Add32(365 * year, (year + 1) \div 4), 730123)

\* ProlepticLastDay stopping at INT_MIN instead of wrapping around
ProlepticLastDaySaturating(year) ==
    LET sum == 365 * year + CDiv(year + 1, 4)
    IN  IF sum < IntMin + 730123 THEN IntMin ELSE sum - 730123

ProlepticLastDay(year) ==
    Sub32(Add32(365 * year, CDiv(year + 1, 4)), 730123)

JulianGetYear(j2000Day) == LongQuotient(4, j2000Day, 2921948, 1461)

JulianLastDay(year) == Sub32(Add32(365 * year, CDiv(year, 4)), 730122)

GregorianLastDay(year) ==
    Sub32(Add32(Sub32(Add32(365 * year, CDiv(year, 4)), CDiv(year, 100)),
                CDiv(year, 400)),
          730120)

GregorianGetYear(j2000Day) ==
    LET estimate == LongQuotient(400, j2000Day, 292194288, 146097)
    IN  IF j2000Day <= GregorianLastDay(estimate - 1)
        THEN estimate - 1 ELSE estimate

JulianIsLeap(year) == CMod(year, 4) = 0

GregorianIsLeap(year) ==
    CMod(year, 4) = 0 /\ (CMod(year, 400) = 0 \/ CMod(year, 100) # 0)

\* virtual dispatch on the factory: "P" proleptic Julian, "J" Julian,
\* "G" Gregorian
GetYear(f, j2000Day) ==
    CASE f = "P" -> ProlepticGetYear(j2000Day)
      [] f = "J" -> JulianGetYear(j2000Day)
      [] OTHER   -> GregorianGetYear(j2000Day)

GetLastJ2000DayOfYear(f, year) ==
    CASE f = "P" -> ProlepticLastDay(year)
      [] f = "J" -> JulianLastDay(year)
      [] OTHER   -> GregorianLastDay(year)

IsLeap(f, year) ==
    IF f = "G" THEN GregorianIsLeap(year) ELSE JulianIsLeap(year)

---------------------------------------------------------------------------
(* DateComponents, DateComponents.cpp:215-356                              *)

Triple(y, m, d) == [year |-> y, month |-> m, day |-> d]

\* DateComponents(int year, int month, int day): stores its arguments
DateComponents3(year, month, day) == Triple(year, month, day)

\* FactoryOfDay with the reform day itself left to the Julian factory
FactoryOfDayInclusive(offset) ==
    IF offset <= -152384
    THEN IF offset > -730122 THEN "J" ELSE "P"
    ELSE "G"

\* the year factory DateComponents(int offset) selects
FactoryOfDay(offset) ==
    IF offset < -152384
    THEN IF offset > -730122 THEN "J" ELSE "P"
    ELSE "G"

\* DateComponents(int offset)
DateComponents1(offset) ==
    LET f         == FactoryOfDay(offset)
        year      == GetYear(f, offset)
        dayInYear == Sub32(offset, GetLastJ2000DayOfYear(f, year - 1))
        leap      == IsLeap(f, year)
        month     == GetMonth(leap, dayInYear)
    IN  Triple(year, month, GetDay(leap, dayInYear, month))

\* FactoryOfTriple deciding on the year alone
FactoryOfTripleByYear(t) ==
    IF t.year < 1583
    THEN IF t.year < 1 THEN "P" ELSE "J"
    ELSE "G"

\* the year factory getJ2000Day() selects
FactoryOfTriple(t) ==
    IF t.year < 1583
    THEN IF t.year < 1 THEN "P"
         ELSE IF t.year < 1582 \/ t.month < 10 \/ (t.month < 11 /\ t.day < 5)
              THEN "J" ELSE "G"
    ELSE "G"

\* getJ2000Day(), for a month that indexes inside the table
GetJ2000Day(t) ==
    LET f == FactoryOfTriple(t)
    IN  Add32(GetLastJ2000DayOfYear(f, t.year - 1),
              GetDayInYear(IsLeap(f, t.year), t.month, t.day))

\* getJ2000Day() for any stored triple: the values the call can return
J2000DayOutcomes(t) ==
    LET f == FactoryOfTriple(t)
    IN  { GetLastJ2000DayOfYear(f, t.year - 1) + t.day + e :
            e \in PreviousMonthEndDayOutcomes(IsLeap(f, t.year), t.month) }

\* DateComponents(const DateComponents& epoch, int offset)
DateComponentsFrom(epoch, offset) == DateComponents1(GetJ2000Day(epoch) + offset)

\* static const int MJD_TO_J2000
MJD_TO_J2000 == 51544

\* GetMJD without the offset between the two day-counts
GetMJDNoOffset(t) == GetJ2000Day(t)

\* getMJD()
GetMJD(t) == MJD_TO_J2000 + GetJ2000Day(t)

MODIFIED_JULIAN_EPOCH == DateComponents3(1858, 11, 17)

GetFirstWeekMonday(year) ==
    LET yearFirst      == GetJ2000Day(DateComponents3(year, 1, 1))
        offsetToMonday == 4 - CMod(yearFirst + 2, 7)
    IN  yearFirst + offsetToMonday + (IF offsetToMonday > 3 THEN -7 ELSE 0)

\* GetCalendarWeek without the wrap of the last days of December
GetCalendarWeekNoWrap(t) ==
    LET firstWeekMonday == GetFirstWeekMonday(t.year)
        days0           == GetJ2000Day(t) - firstWeekMonday
        days ==
            IF days0 < 0
            THEN days0 + (firstWeekMonday - GetFirstWeekMonday(t.year - 1))
            ELSE days0
    IN  1 + CDiv(days, 7)

GetCalendarWeek(t) ==
    LET firstWeekMonday == GetFirstWeekMonday(t.year)
        days0           == GetJ2000Day(t) - firstWeekMonday
        weekYearLength  == GetFirstWeekMonday(t.year + 1) - firstWeekMonday
        days ==
            IF days0 < 0
            THEN days0 + (firstWeekMonday - GetFirstWeekMonday(t.year - 1))
            ELSE IF days0 > 363 /\ days0 >= weekYearLength
                 THEN days0 - weekYearLength
                 ELSE days0
    IN  1 + CDiv(days, 7)

GetDayOfWeek(t) ==
    LET dow == CMod(GetJ2000Day(t) + 6, 7)
    IN  IF dow < 1 THEN dow + 7 ELSE dow

\* CreateFromWeekComponents counting the days of the week from 0
CreateFromWeekComponentsFromZero(wYear, week, dayOfWeek) ==
    DateComponentsFrom(DateComponents1(GetFirstWeekMonday(wYear)),
                       7 * week + dayOfWeek - 7)

\* createFromWeekComponents(wYear, week, dayOfWeek)
CreateFromWeekComponents(wYear, week, dayOfWeek) ==
    DateComponentsFrom(DateComponents1(GetFirstWeekMonday(wYear)),
                       7 * week + dayOfWeek - 8)

\* operator< and operator==, on the day-counts getJ2000Day() returned
Less(j2000Day, otherJ2000Day) == j2000Day < otherJ2000Day

Equal(a, b) == a.year = b.year /\ a.month = b.month /\ a.day = b.day

---------------------------------------------------------------------------
(* double values.  A double is modelled exactly on the values the calls    *)
(* below can meet: q/Den + c * 1e-10 + u * 2^-53, with q an integer (the   *)
(* multiples of 1/Den, on which IEEE-754 addition is exact), c the number  *)
(* of 1e-10 steps the clamp of TimeComponents.cpp:80 subtracts, and u in   *)
(* -1..1 a last-place step of a value of magnitude below 1 (u = -1 on      *)
(* q = Den is the largest double below 1.0).  t in -1..1 adds t * 2^-60, a *)
(* step that only a value with q = 0 can hold: it is under half a          *)
(* last-place step of every multiple of 1/Den but 0.  nan marks a          *)
(* not-a-number.                                                           *)

Den == 4

Dbl4(q, c, u, t) == [q |-> q, c |-> c, u |-> u, t |-> t, nan |-> FALSE]

Dbl(q, c, u) == Dbl4(q, c, u, 0)

NaN == [q |-> 0, c |-> 0, u |-> 0, t |-> 0, nan |-> TRUE]

\* int -> double conversion, exact
OfInt(i) == Dbl(i * Den, 0, 0)

\* Round to nearest, ties to even: the 2^-53 step is representable only
\* on a value of magnitude below 1; on a larger one the sum lies at or
\* within half a last-place step of q/Den, which is the double returned.
\* The 2^-60 step is lost on every sum that is not within 1/Den of 0.
Round(x) ==
    LET t == IF x.q = 0 THEN x.t ELSE 0
    IN  IF x.u = 0 \/ (x.q > -Den /\ x.q < Den)
           \/ (x.c = 0 /\ x.q = Den /\ x.u < 0)
           \/ (x.c = 0 /\ x.q = -Den /\ x.u > 0)
        THEN Dbl4(x.q, x.c, x.u, t)
        ELSE Dbl4(x.q, x.c, 0, t)

DAdd(x, y) ==
    IF x.nan \/ y.nan THEN NaN
    ELSE Round(Dbl4(x.q + y.q, x.c + y.c, x.u + y.u, x.t + y.t))

DSub(x, y) ==
    IF x.nan \/ y.nan THEN NaN
    ELSE Round(Dbl4(x.q - y.q, x.c - y.c, x.u - y.u, x.t - y.t))

\* x < y; false when either is a NaN
DLess(x, y) ==
    /\ ~x.nan /\ ~y.nan
    /\ \/ x.q < y.q
       \/ x.q = y.q /\ x.c < y.c
       \/ x.q = y.q /\ x.c = y.c /\ x.u < y.u
       \/ x.q = y.q /\ x.c = y.c /\ x.u = y.u /\ x.t < y.t

\* std::floor of a number, as an integer
DFloor(x) ==
    IF x.q % Den = 0 /\ DLess(Dbl4(0, x.c, x.u, x.t), Dbl(0, 0, 0))
    THEN (x.q \div Den) - 1
    ELSE x.q \div Den

\* static_cast<int>(std::floor(x)): converting a NaN to int is undefined;
\* the conversion instruction yields INT_MIN on x86 and 0 on ARM.
FloorToIntOutcomes(x) == IF x.nan THEN {IntMin, 0} ELSE {DFloor(x)}

---------------------------------------------------------------------------
(* TimeComponents, TimeComponents.cpp:8-138                                *)

Time(h, m, s, z) == [hour |-> h, minute |-> m, second |-> s, minutesFromUTC |-> z]

\* TimeComponents(int hour, int minute, double second)
H00 == Time(0, 0, OfInt(0), 0)

\* ClampedSecond storing minuteDuration itself
ClampedSecondNoStep(minuteDuration) == Dbl(minuteDuration * Den, 0, 0)

\* second = (double)minuteDuration - 0.0000000001
ClampedSecond(minuteDuration) == Dbl(minuteDuration * Den, -1, 0)

\* TimeComponents(int secondInDayA, double secondInDayB, double leap,
\*                int minuteDuration), carry being the value the cast gave
TimeComponents4(secondInDayA, secondInDayB, leap, minuteDuration, carry) ==
    LET wholeSeconds == Add32(secondInDayA, carry)
        fractional   == IF secondInDayB.nan THEN NaN
                        ELSE DSub(secondInDayB, OfInt(carry))
        hour         == CDiv(wholeSeconds, 3600)
        whole2       == wholeSeconds - 3600 * hour
        minute       == CDiv(whole2, 60)
        whole3       == whole2 - 60 * minute
        naiveSecond  == DAdd(OfInt(whole3), DAdd(leap, fractional))
        second       == IF DLess(naiveSecond, OfInt(minuteDuration))
                           \/ naiveSecond.nan
                        THEN naiveSecond
                        ELSE ClampedSecond(minuteDuration)
    IN  Time(hour, minute, second, 0)

---------------------------------------------------------------------------
(* The calls checked.                                                      *)

Span == 370

\* day-counts around the two regime thresholds and around J2000, and
\* that of the modified Julian epoch
OffsetInputs ==
    UNION { (p - Span)..(p + Span) : p \in {-730122, -152384, 0} }
    \cup {-MJD_TO_J2000}

TripleYears ==
    {-4, -1, 0, 1, 4, 1581, 1582, 1583, 1600, 1900, 1995, 1996, 2000, 2001}

WeekYears ==
    {-1, 0, 1, 1581, 1582, 1583, 1584, 1995, 1996, 1997, 1998, 2000, 2004}

Call(op, a, b, c, d) == [op |-> op, a |-> a, b |-> b, c |-> c, d |-> d]

DateCalls ==
    { Call("offset", n, 0, 0, 0) : n \in OffsetInputs }
    \cup { Call("triple", y, m, d, 0) : y \in TripleYears, m \in 0..13, d \in 0..32 }
    \cup { Call("week", y, w, d, 0) : y \in WeekYears, w \in 0..54, d \in 0..8 }

\* right-hand operands of the comparisons
OtherInputs ==
    { Triple(2001, m, d) : m \in {2, 3}, d \in {1, 29} }
    \cup { Triple(1582, 10, d) : d \in {4, 10, 15} }

J2000_EPOCH == DateComponents3(2000, 1, 1)

NoCmp == [lt |-> FALSE, gt |-> FALSE, eq |-> FALSE]

Init ==
    /\ pc = "new"
    /\ src \in DateCalls
    /\ date = J2000_EPOCH
    /\ other = J2000_EPOCH
    /\ cmp = NoCmp
    /\ time = H00
    /\ thrown = FALSE

\* new DateComponents(offset)
NewFromOffset ==
    /\ pc = "new" /\ src.op = "offset"
    /\ date' = DateComponents1(src.a)
    /\ thrown' = FALSE
    /\ pc' = "built"
    /\ UNCHANGED <<src, other, cmp, time>>

\* new DateComponents(year, month, day)
NewFromTriple ==
    /\ pc = "new" /\ src.op = "triple"
    /\ date' = DateComponents3(src.a, src.b, src.c)
    /\ thrown' = FALSE
    /\ pc' = "built"
    /\ UNCHANGED <<src, other, cmp, time>>

\* DateComponents::createFromWeekComponents(wYear, week, dayOfWeek)
NewFromWeek ==
    /\ pc = "new" /\ src.op = "week"
    /\ date' = CreateFromWeekComponents(src.a, src.b, src.c)
    /\ thrown' = FALSE
    /\ pc' = "built"
    /\ UNCHANGED <<src, other, cmp, time>>

\* date < other, other < date and date == other
Compare ==
    /\ pc = "built"
    /\ \E t \in OtherInputs :
         \E x \in J2000DayOutcomes(date), y \in J2000DayOutcomes(t) :
            /\ other' = t
            /\ cmp' = [lt |-> Less(x, y), gt |-> Less(y, x), eq |-> Equal(date, t)]
    /\ pc' = "compared"
    /\ UNCHANGED <<src, date, time, thrown>>

Next == NewFromOffset \/ NewFromTriple \/ NewFromWeek \/ Compare

Spec == Init /\ [][Next]_vars

---------------------------------------------------------------------------
(* The calls of the year and month-day factories checked.                  *)

YearSpan == 120

\* years of the proleptic Julian factory
ProlepticYears == (-YearSpan)..0

FactoryCalls ==
    { Call("lastDay", y, 0, 0, 0) : y \in ProlepticYears }
    \cup { Call("monthDay", n, 1, 0, 0) : n \in 1..366 }
    \cup { Call("monthDay", n, 0, 0, 0) : n \in 1..365 }

FactoryInit ==
    /\ pc = "new"
    /\ src \in FactoryCalls
    /\ date = J2000_EPOCH
    /\ other = J2000_EPOCH
    /\ cmp = NoCmp
    /\ time = H00
    /\ thrown = FALSE

\* PROLEPTIC_JULIAN_FACTORY: getLastJ2000DayOfYear(year),
\* getLastJ2000DayOfYear(year - 1) and isLeap(year)
LastDayOfYear ==
    /\ pc = "new" /\ src.op = "lastDay"
    /\ cmp' = [lastDay  |-> GetLastJ2000DayOfYear("P", src.a),
               previous |-> GetLastJ2000DayOfYear("P", src.a - 1),
               leap     |-> IsLeap("P", src.a)]
    /\ pc' = "built"
    /\ UNCHANGED <<src, date, other, time, thrown>>

\* LEAP_YEAR_FACTORY (src.b = 1) or COMMON_YEAR_FACTORY (src.b = 0):
\* getMonth(dayInYear), getDay(dayInYear, month), getDayInYear(month, day)
MonthDay ==
    /\ pc = "new" /\ src.op = "monthDay"
    /\ LET leap  == src.b = 1
           month == GetMonth(leap, src.a)
           day   == GetDay(leap, src.a, month)
       IN  cmp' = [month     |-> month,
                   day       |-> day,
                   dayInYear |-> GetDayInYear(leap, month, day)]
    /\ pc' = "built"
    /\ UNCHANGED <<src, date, other, time, thrown>>

FactoryNext == LastDayOfYear \/ MonthDay

SpecFactory == FactoryInit /\ [][FactoryNext]_vars

---------------------------------------------------------------------------
(* The constructions of the first and of the last dates checked.           *)

ExtremeSpan == 300

\* the day-counts of MIN_EPOCH and MAX_EPOCH and those next to them
ExtremeInputs ==
    { IntMin + i : i \in 0..ExtremeSpan } \cup { IntMax - i : i \in 0..ExtremeSpan }

ExtremeInit ==
    /\ pc = "new"
    /\ src \in { Call("offset", n, 0, 0, 0) : n \in ExtremeInputs }
    /\ date = J2000_EPOCH
    /\ other = J2000_EPOCH
    /\ cmp = NoCmp
    /\ time = H00
    /\ thrown = FALSE

ExtremeNext == NewFromOffset

SpecExtreme == ExtremeInit /\ [][ExtremeNext]_vars

---------------------------------------------------------------------------
(* The calls of TimeComponents::fromSeconds checked.                       *)

SecondInDayAInputs == {-1, 0, 59, 3599, 3661, 86340, 86399, 86400}

\* the largest double below 1.0
NextDownOne == Dbl(Den, 0, -1)

SecondInDayBInputs ==
    { Dbl(q, 0, 0) : q \in (-1)..(2 * Den - 1) } \cup {NextDownOne, NaN}

LeapInputs == { OfInt(i) : i \in (-1)..2 } \cup {NaN}

MinuteDurations == {59, 60, 61}

TimeCalls ==
    { Call("fromSeconds", a, b, l, m) :
        a \in SecondInDayAInputs, b \in SecondInDayBInputs,
        l \in LeapInputs, m \in MinuteDurations }

TimeInit ==
    /\ pc = "new"
    /\ src \in TimeCalls
    /\ date = J2000_EPOCH
    /\ other = J2000_EPOCH
    /\ cmp = NoCmp
    /\ time = H00
    /\ thrown = FALSE

\* TimeComponents::fromSeconds(secondInDayA, secondInDayB, leap, minuteDuration)
FromSeconds ==
    /\ pc = "new" /\ src.op = "fromSeconds"
    /\ \E carry \in FloorToIntOutcomes(src.b) :
         time' = TimeComponents4(src.a, src.b, src.c, src.d, carry)
    /\ thrown' = FALSE
    /\ pc' = "built"
    /\ UNCHANGED <<src, date, other, cmp>>

TimeNext == FromSeconds

SpecTime == TimeInit /\ [][TimeNext]_vars

---------------------------------------------------------------------------
(* DateTimeComponents, DateTimeComponents.cpp:7-82, with the accessors,    *)
(* the comparisons and the seconds-of-day constructors of TimeComponents   *)
(* it calls.                                                               *)

\* Constants::JULIAN_DAY, the seconds of a day
JULIAN_DAY == 86400

\* -x
DNeg(x) == IF x.nan THEN NaN ELSE Dbl4(-(x.q), -(x.c), -(x.u), -(x.t))

\* x == y; false when either is a NaN
DEq(x, y) == ~x.nan /\ ~y.nan /\ x = y

\* std::floor(x / n) of a number.  The quotient of a value that lies a
\* 1e-10 or a 2^-53 step under a small multiple of n is a double under
\* that multiple: the division does not round it up to the integer.
DivFloor(x, n) ==
    IF x.q % (n * Den) = 0 /\ DLess(Dbl4(0, x.c, x.u, x.t), Dbl(0, 0, 0))
    THEN (x.q \div (n * Den)) - 1
    ELSE x.q \div (n * Den)

\* static_cast<int>(std::floor(x / n)); undefined on a NaN as above
DivFloorToIntOutcomes(x, n) == IF x.nan THEN {IntMin, 0} ELSE {DivFloor(x, n)}

\* getSecondsInLocalDay(): second + 60. * minute + 3600. * hour
GetSecondsInLocalDay(t) ==
    DAdd(DAdd(t.second, OfInt(60 * t.minute)), OfInt(3600 * t.hour))

\* getSecondsInUTCDay() leaving the offset from UTC out
GetSecondsInUTCDayLocal(t) ==
    DAdd(DAdd(t.second, OfInt(60 * t.minute)), OfInt(3600 * t.hour))

\* getSecondsInUTCDay():
\* second + 60. * (minute - minutesFromUTC) + 3600. * hour
GetSecondsInUTCDay(t) ==
    DAdd(DAdd(t.second, OfInt(60 * (t.minute - t.minutesFromUTC))),
         OfInt(3600 * t.hour))

\* TimeComponents2 without the leap second after the day
TimeComponents2InDay(secondInDayA, secondInDayB, carry) ==
    TimeComponents4(secondInDayA, secondInDayB, OfInt(0), 60, carry)

\* TimeComponents(int secondInDayA, double secondInDayB): a sum that is
\* not below JULIAN_DAY is taken to lie in a leap second
TimeComponents2(secondInDayA, secondInDayB, carry) ==
    LET inDay == DLess(OfInt(0),
                       DSub(OfInt(JULIAN_DAY - secondInDayA), secondInDayB))
    IN  TimeComponents4(IF inDay THEN secondInDayA ELSE secondInDayA - 1,
                        secondInDayB,
                        IF inDay THEN OfInt(0) ELSE OfInt(1),
                        IF inDay THEN 60 ELSE 61,
                        carry)

\* TimeComponents(double secondInDay)
TimeComponents1(secondInDay, carry) == TimeComponents2(0, secondInDay, carry)

DateTime(d, t) == [date |-> d, time |-> t]

\* seconds += offset, from reference.getTime().getSecondsInLocalDay()
ShiftedSeconds(reference, offset) ==
    DAdd(GetSecondsInLocalDay(reference.time), offset)

\* seconds -= Constants::JULIAN_DAY * dayShift
SecondsOfShiftedDay(reference, offset, dayShift) ==
    DSub(ShiftedSeconds(reference, offset), OfInt(JULIAN_DAY * dayShift))

\* DateTimeFrom leaving the day of the reference as it is
DateTimeFromSameDay(reference, offset, day, dayShift, carry) ==
    LET tmpTime == TimeComponents1(SecondsOfShiftedDay(reference, offset, dayShift),
                                   carry)
    IN  DateTime(DateComponents1(day),
                 Time(tmpTime.hour, tmpTime.minute, tmpTime.second,
                      reference.time.minutesFromUTC))

\* DateTimeComponents(reference, offset), day being the value of
\* reference.getDate().getJ2000Day() and dayShift and carry the values
\* the two casts gave
DateTimeFrom(reference, offset, day, dayShift, carry) ==
    LET tmpTime == TimeComponents1(SecondsOfShiftedDay(reference, offset, dayShift),
                                   carry)
    IN  DateTime(DateComponents1(day + dayShift),
                 Time(tmpTime.hour, tmpTime.minute, tmpTime.second,
                      reference.time.minutesFromUTC))

\* offsetFrom(dateTime), on the day-counts getJ2000Day() returned
OffsetFrom(a, b, day, otherDay) ==
    DAdd(OfInt(JULIAN_DAY * (day - otherDay)),
         DSub(GetSecondsInUTCDay(a.time), GetSecondsInUTCDay(b.time)))

\* fabs(x) < 1e-8
AbsBelowTolerance(x) == ~x.nan /\ x.q = 0 /\ x.c \in (-99)..99

\* TimeComponents::operator==
TimeEqual(a, b) ==
    /\ a.hour = b.hour
    /\ a.minute = b.minute
    /\ AbsBelowTolerance(DSub(a.second, b.second))
    /\ a.minutesFromUTC = b.minutesFromUTC

\* DateTimeComponents::operator==
DateTimeEqual(a, b) == Equal(a.date, b.date) /\ TimeEqual(a.time, b.time)

\* a ^ b on non-negative integers
RECURSIVE XorN(_, _)
XorN(a, b) ==
    IF a = 0 THEN b
    ELSE IF b = 0 THEN a
    ELSE 2 * XorN(a \div 2, b \div 2) + ((a + b) % 2)

\* the two 16-bit halves of the two's complement pattern of an int
Lo16(a) == a % 65536

Hi16(a) == ((a - Lo16(a)) \div 65536) % 65536

FromHalves(hi, lo) == (IF hi >= 32768 THEN hi - 65536 ELSE hi) * 65536 + lo

\* a ^ b on int
Xor32(a, b) == FromHalves(XorN(Hi16(a), Hi16(b)), XorN(Lo16(a), Lo16(b)))

\* a << n on int for n in 0..16, the bits shifted out being lost
Shl32(a, n) ==
    FromHalves((a \div (2 ^ (16 - n))) % 65536, (a % (2 ^ (16 - n))) * (2 ^ n))

\* DateComponents::hashCode(): (year << 16) ^ (month << 8) ^ day
DateHashCode(t) == Xor32(Xor32(Shl32(t.year, 16), Shl32(t.month, 8)), t.day)

\* static_cast<int64_t>(x) of a number: the fraction is dropped
DTrunc(x) ==
    IF DLess(x, OfInt(0)) THEN -DFloor(DNeg(x)) ELSE DFloor(x)

\* (int)(bits ^ (bits >> 32)) for bits = static_cast<int64_t>(second);
\* the conversion of a NaN is undefined (INT64_MIN on x86, 0 on ARM)
FoldedBitsOutcomes(second) ==
    IF second.nan THEN {IntMin, 0}
    ELSE LET bits == DTrunc(second)
         IN  {IF bits >= 0 THEN bits ELSE -bits - 1}

\* TimeComponents::hashCode(), folded being (int)(bits ^ (bits >> 32))
TimeHashCode(t, folded) ==
    Xor32(Xor32(Shl32(t.hour, 16), Shl32(t.minute - t.minutesFromUTC, 8)),
          folded)

\* DateTimeComponents::hashCode()
DateTimeHashCode(a, folded) ==
    Xor32(Shl32(DateHashCode(a.date), 16), TimeHashCode(a.time, folded))

---------------------------------------------------------------------------
(* The calls of DateTimeComponents checked.                                *)

DateTimeDates ==
    { Triple(0, 12, 31), Triple(1, 1, 1), Triple(1582, 10, 4),
      Triple(1582, 10, 15), Triple(1999, 12, 31), Triple(2000, 1, 1),
      Triple(2000, 1, 2) }

DateTimeSeconds ==
    { OfInt(0), OfInt(1), NextDownOne, Dbl(60 * Den - 1, 0, 0), OfInt(60) }

DateTimeTimes ==
    { Time(h, m, s, z) :
        h \in {0, 12, 23}, m \in {0, 59}, s \in DateTimeSeconds,
        z \in {-90, 0, 60} }

DateTimeCalls ==
    { Call("dateTime", d, t, 0, 0) : d \in DateTimeDates, t \in DateTimeTimes }

\* offsets in seconds: whole and quarter seconds, and +-2^-53
OffsetSeconds ==
    { OfInt(n) : n \in {-172800, -86401, -86400, -43200, -1, 0, 1,
                        43200, 86400, 86401} }
    \cup { Dbl(-1, 0, 0), Dbl(1, 0, 0), Dbl(0, 0, -1), Dbl(0, 0, 1) }

\* the largest difference of day-counts of the offsetFrom calls checked
MaxDayGap == 6000

\* right-hand operands of offsetFrom and of the comparisons
OtherDateTimes ==
    { DateTime(Triple(2000, 1, 1), Time(0, 0, s, 0)) :
        s \in {OfInt(0), OfInt(1), NextDownOne, NaN} }
    \cup { DateTime(Triple(2000, 1, 1), Time(12, 0, OfInt(0), 0)),
           DateTime(Triple(2000, 1, 1), Time(1, 0, OfInt(0), 60)),
           DateTime(Triple(2000, 1, 2), Time(12, 0, OfInt(0), 0)),
           DateTime(Triple(1999, 12, 31), Time(23, 59, OfInt(60), 0)),
           DateTime(Triple(1582, 10, 4), Time(23, 59, Dbl(60 * Den - 1, 0, 0), -90)),
           DateTime(Triple(1582, 10, 15), Time(0, 0, OfInt(0), 0)) }

DateTimeInit ==
    /\ pc = "new"
    /\ src \in DateTimeCalls
    /\ date = J2000_EPOCH
    /\ other = DateTime(J2000_EPOCH, H00)
    /\ cmp = NoCmp
    /\ time = H00
    /\ thrown = FALSE

\* new DateTimeComponents(date, time)
NewDateTime ==
    /\ pc = "new" /\ src.op = "dateTime"
    /\ date' = DateComponents3(src.a.year, src.a.month, src.a.day)
    /\ time' = Time(src.b.hour, src.b.minute, src.b.second, src.b.minutesFromUTC)
    /\ thrown' = FALSE
    /\ pc' = "built"
    /\ UNCHANGED <<src, other, cmp>>

\* new DateTimeComponents(reference, offset), the reference being the
\* date-time built
NewFromReference ==
    /\ pc = "built"
    /\ \E offset \in OffsetSeconds :
         LET reference == DateTime(date, time)
         IN  \E day \in J2000DayOutcomes(date),
                dayShift \in DivFloorToIntOutcomes(
                                ShiftedSeconds(reference, offset), JULIAN_DAY) :
               \E carry \in FloorToIntOutcomes(
                               SecondsOfShiftedDay(reference, offset, dayShift)) :
                  /\ src' = Call("shift", date, time, offset, 0)
                  /\ date' = DateTimeFrom(reference, offset, day, dayShift, carry).date
                  /\ time' = DateTimeFrom(reference, offset, day, dayShift, carry).time
    /\ thrown' = FALSE
    /\ pc' = "shifted"
    /\ UNCHANGED <<other, cmp>>

\* a.offsetFrom(b), b.offsetFrom(a) and a.offsetFrom(a)
OffsetFromOther ==
    /\ pc \in {"built", "shifted"}
    /\ \E b \in OtherDateTimes :
         LET a == DateTime(date, time)
         IN  \E x \in J2000DayOutcomes(date), y \in J2000DayOutcomes(b.date) :
               /\ x - y \in (-MaxDayGap)..MaxDayGap
               /\ other' = b
               /\ cmp' = [ab |-> OffsetFrom(a, b, x, y),
                          ba |-> OffsetFrom(b, a, y, x),
                          aa |-> OffsetFrom(a, a, x, x)]
    /\ pc' = "measured"
    /\ UNCHANGED <<src, date, time, thrown>>

\* a == b and the hashCode() of both, for the dates, the times and the
\* date-times
CompareHash ==
    /\ pc = "built"
    /\ \E b \in OtherDateTimes :
         LET a == DateTime(date, time)
         IN  \E f \in FoldedBitsOutcomes(time.second),
                g \in FoldedBitsOutcomes(b.time.second) :
               /\ other' = b
               /\ cmp' = [dateEq |-> Equal(date, b.date),
                          timeEq |-> TimeEqual(time, b.time),
                          eq |-> DateTimeEqual(a, b),
                          dateHash |-> DateHashCode(date),
                          otherDateHash |-> DateHashCode(b.date),
                          timeHash |-> TimeHashCode(time, f),
                          otherTimeHash |-> TimeHashCode(b.time, g),
                          hash |-> DateTimeHashCode(a, f),
                          otherHash |-> DateTimeHashCode(b, g)]
    /\ pc' = "hashed"
    /\ UNCHANGED <<src, date, time, thrown>>

DateTimeNext == NewDateTime \/ NewFromReference \/ OffsetFromOther \/ CompareHash

SpecDateTime == DateTimeInit /\ [][DateTimeNext]_vars

---------------------------------------------------------------------------
(* The shifts of a reference measured back from the reference.             *)

\* references: the times above, a time whose minute equals its offset
\* from UTC, and the last double below 60 s in the last minute of the day
\* (added to 60. * 59 it gives 3600.0, the step being under half a
\* last-place step of the sum)
ReferenceTimes ==
    DateTimeTimes
    \cup { Time(0, 59, NextDownOne, 59), Time(0, 59, OfInt(1), 59) }
    \cup { Time(23, 59, Dbl(60 * Den, 0, -1), z) : z \in {-90, 0, 60} }

ReferenceCalls ==
    { Call("dateTime", d, t, 0, 0) : d \in DateTimeDates, t \in ReferenceTimes }

InverseInit ==
    /\ pc = "new"
    /\ src \in ReferenceCalls
    /\ date = J2000_EPOCH
    /\ other = DateTime(J2000_EPOCH, H00)
    /\ cmp = NoCmp
    /\ time = H00
    /\ thrown = FALSE

\* DateTimeComponents(reference, offset).offsetFrom(reference) and
\* DateTimeComponents(reference, offset) == reference
OffsetFromReference ==
    /\ pc = "shifted"
    /\ LET a         == DateTime(date, time)
           reference == DateTime(src.a, src.b)
       IN  \E x \in J2000DayOutcomes(date), y \in J2000DayOutcomes(src.a) :
             /\ other' = reference
             /\ cmp' = [back |-> OffsetFrom(a, reference, x, y),
                        same |-> DateTimeEqual(a, reference)]
    /\ pc' = "returned"
    /\ UNCHANGED <<src, date, time, thrown>>

InverseNext == NewDateTime \/ NewFromReference \/ OffsetFromReference

SpecInverse == InverseInit /\ [][InverseNext]_vars

---------------------------------------------------------------------------
(* The calls of TimeComponents(double) and TimeComponents(int, double)     *)
(* checked.                                                                *)

\* the whole seconds secondInDayB goes up to, either side of 0
CarrySpan == 2

\* seconds of day: the first and last seconds of minutes and hours, by
\* quarters, the leap second after the day, values outside the day, the
\* largest double below 1.0 and a NaN
SecondInDayInputs ==
    { OfInt(3600 * h + 60 * m + w) :
        h \in {0, 1, 12, 23}, m \in {0, 1, 59}, w \in {0, 1, 59} }
    \cup { Dbl(Den * (3600 * h + 3599) + f, 0, 0) : h \in {0, 23}, f \in 1..(Den - 1) }
    \cup { Dbl(Den * JULIAN_DAY + f, 0, 0) : f \in 0..(2 * Den) }
    \cup { Dbl(-Den, 0, 0), Dbl(-1, 0, 0), Dbl(1, 0, 0), Dbl4(0, 0, 0, 1),
           NextDownOne, NaN }

\* secondInDayB: quarters of a second, the largest double below 1.0,
\* -2^-53, +-2^-60, whole minutes and a NaN
CarryInputs ==
    { Dbl(q, 0, 0) : q \in (-Den * CarrySpan)..(Den * CarrySpan) }
    \cup { NextDownOne, Dbl(0, 0, -1), Dbl4(0, 0, 0, -1), Dbl4(0, 0, 0, 1),
           OfInt(60), OfInt(-60), NaN }

\* secondInDayA: the values above and the first seconds of a minute and
\* of an hour
SecondPartInputs == SecondInDayAInputs \cup {60, 3600}

SecondCalls ==
    { Call("seconds", 0, s, 0, 0) : s \in SecondInDayInputs }
    \cup { Call("parts", a, b, 0, 0) : a \in SecondPartInputs, b \in CarryInputs }

SecondsInit ==
    /\ pc = "new"
    /\ src \in SecondCalls
    /\ date = J2000_EPOCH
    /\ other = H00
    /\ cmp = NoCmp
    /\ time = H00
    /\ thrown = FALSE

\* new TimeComponents(secondInDay)
NewFromSecondInDay ==
    /\ pc = "new" /\ src.op = "seconds"
    /\ \E carry \in FloorToIntOutcomes(src.b) :
         time' = TimeComponents1(src.b, carry)
    /\ thrown' = FALSE
    /\ pc' = "built"
    /\ UNCHANGED <<src, date, other, cmp>>

\* new TimeComponents(secondInDayA, secondInDayB)
NewFromSecondParts ==
    /\ pc = "new" /\ src.op = "parts"
    /\ \E carry \in FloorToIntOutcomes(src.b) :
         time' = TimeComponents2(src.a, src.b, carry)
    /\ thrown' = FALSE
    /\ pc' = "built"
    /\ UNCHANGED <<src, date, other, cmp>>

\* getSecondsInLocalDay() of the time built
SecondsInLocalDay ==
    /\ pc = "built" /\ src.op = "seconds"
    /\ cmp' = [local |-> GetSecondsInLocalDay(time)]
    /\ pc' = "measured"
    /\ UNCHANGED <<src, date, other, time, thrown>>

\* new TimeComponents(secondInDayA + floor, secondInDayB - floor) for the
\* floor of a number secondInDayB
NewFromSplitParts ==
    /\ pc = "built" /\ src.op = "parts" /\ ~src.b.nan
    /\ LET floor == DFloor(src.b)
           rest  == DSub(src.b, OfInt(floor))
       IN  \E carry \in FloorToIntOutcomes(rest) :
             other' = TimeComponents2(Add32(src.a, floor), rest, carry)
    /\ pc' = "rebuilt"
    /\ UNCHANGED <<src, date, cmp, time, thrown>>

SecondsNext ==
    \/ NewFromSecondInDay
    \/ NewFromSecondParts
    \/ SecondsInLocalDay
    \/ NewFromSplitParts

SpecSeconds == SecondsInit /\ [][SecondsNext]_vars

---------------------------------------------------------------------------
(* The calendar the claims speak of, stated independently of the formulas  *)
(* above: astronomical year numbering, Julian leap rule up to 1582,        *)
(* Gregorian after, ten days missing in October 1582.                      *)

CalendarLeap(y) ==
    IF y < 1583 THEN y % 4 = 0
    ELSE y % 4 = 0 /\ (y % 100 # 0 \/ y % 400 = 0)

MonthLength(y, m) ==
    IF m = 2 THEN (IF CalendarLeap(y) THEN 29 ELSE 28)
    ELSE IF m \in {4, 6, 9, 11} THEN 30 ELSE 31

InReformGap(t) == t.year = 1582 /\ t.month = 10 /\ t.day \in 5..14

ValidTriple(t) ==
    /\ t.month \in 1..12
    /\ t.day \in 1..MonthLength(t.year, t.month)
    /\ ~InReformGap(t)

\* the calendar day after t
NextDate(t) ==
    IF t = Triple(1582, 10, 4) THEN Triple(1582, 10, 15)
    ELSE IF t.day < MonthLength(t.year, t.month)
         THEN Triple(t.year, t.month, t.day + 1)
         ELSE IF t.month < 12 THEN Triple(t.year, t.month + 1, 1)
              ELSE Triple(t.year + 1, 1, 1)

\* ISO-8601 weeks.  J2000 day 0 (2000-01-01) was a Saturday.
IsoDayOfWeek(n) == ((n + 5) % 7) + 1

JanuaryFirst(y) == GetJ2000Day(Triple(y, 1, 1))

FirstThursday(y) ==
    CHOOSE n \in JanuaryFirst(y)..(JanuaryFirst(y) + 6) : IsoDayOfWeek(n) = 4

WeeksInYear(y) == (FirstThursday(y + 1) - FirstThursday(y)) \div 7

\* week number of the day n of calendar year y: the rank, among the
\* Thursdays of its year, of the Thursday of n's Monday-to-Sunday week
IsoWeekOf(n, y) ==
    LET thursday == n + 4 - IsoDayOfWeek(n)
        wy == CHOOSE k \in {y - 1, y, y + 1} :
                 JanuaryFirst(k) <= thursday /\ thursday < JanuaryFirst(k + 1)
    IN  1 + (thursday - FirstThursday(wy)) \div 7

ValidWeekDate(wYear, week, dayOfWeek) ==
    dayOfWeek \in 1..7 /\ week \in 1..WeeksInYear(wYear)

---------------------------------------------------------------------------
(* Claims on DateComponents, checked under Spec.                           *)

Built == pc # "new"

\* C1: the day-count <-> triple conversions are mutually inverse: a date
\* built from a day-count d has getJ2000Day() = d, and the date built from
\* the day-count of a valid triple has that triple, on both sides of the
\* year 0/1 and of the 1582-10-04/15 boundaries.
C1_RoundTrip ==
    /\ Built /\ src.op = "offset" => GetJ2000Day(date) = src.a
    /\ Built /\ src.op = "triple" /\ ValidTriple(date)
          => DateComponents1(GetJ2000Day(date)) = date

C1_Witness ==
    /\ pc = "built" /\ src.op = "triple"
    /\ date = Triple(1582, 10, 15)
    /\ DateComponents1(GetJ2000Day(date) - 1) = Triple(1582, 10, 4)

\* C2: constructing a date from an invalid (year, month, day) triple fails
\* with an error and yields no date.
C2_InvalidTripleRejected ==
    Built /\ src.op = "triple" /\ ~ValidTriple(Triple(src.a, src.b, src.c))
        => thrown

\* C3: the day-count before that of 1582-10-15 is 1582-10-04, no day-count
\* converts to a triple of the reform gap, and consecutive day-counts give
\* consecutive existing calendar days.
C3_ReformContinuity ==
    /\ Built /\ src.op = "offset"
          => /\ ValidTriple(date)
             /\ DateComponents1(src.a + 1) = NextDate(date)
    /\ Built /\ src.op = "triple" /\ date = Triple(1582, 10, 15)
          => DateComponents1(GetJ2000Day(date) - 1) = Triple(1582, 10, 4)

C3_Witness ==
    /\ pc = "built" /\ src.op = "offset"
    /\ date = Triple(1582, 10, 4)
    /\ DateComponents1(src.a + 1) = Triple(1582, 10, 15)

ExactlyOne(a, b, c) ==
    (a /\ ~b /\ ~c) \/ (~a /\ b /\ ~c) \/ (~a /\ ~b /\ c)

\* C4: for any two dates that can be constructed, exactly one of a < b,
\* a == b, b < a holds, operator< comparing the day-counts and operator==
\* the triples.
C4_OrderTrichotomy ==
    pc = "compared" => ExactlyOne(cmp.lt, cmp.eq, cmp.gt)

\* C5: for every valid (wYear, week, dayOfWeek) the date that
\* createFromWeekComponents returns has getCalendarWeek() = week and
\* getDayOfWeek() = dayOfWeek.
C5_WeekRoundTrip ==
    Built /\ src.op = "week" /\ ValidWeekDate(src.a, src.b, src.c)
        => /\ GetCalendarWeek(date) = src.b
           /\ GetDayOfWeek(date) = src.c

\* week 1 of 1998 starts on 1997-12-29
C5_Witness ==
    /\ pc = "built" /\ src.op = "week"
    /\ src.a = 1998 /\ src.b = 1 /\ src.c = 1
    /\ date = Triple(1997, 12, 29)
    /\ GetCalendarWeek(date) = 1

IsoWeekNumber(lastWeeks) ==
    Built /\ ValidTriple(date) =>
        LET n == GetJ2000Day(date)
            w == GetCalendarWeek(date)
        IN  /\ w = IsoWeekOf(n, date.year)
            /\ w \in 1..53
            /\ GetDayOfWeek(date) = IsoDayOfWeek(n)
            /\ n < FirstThursday(date.year) - 3
                  => w = WeeksInYear(date.year - 1) /\ w \in lastWeeks
            /\ n >= FirstThursday(date.year + 1) - 3
                  => w = 1 /\ date.month = 12 /\ date.day >= 29
            /\ date = Triple(1995, 1, 1) => w = 52 /\ GetDayOfWeek(date) = 7
            /\ date = Triple(1996, 12, 31) => w = 1 /\ GetDayOfWeek(date) = 2

\* C6 as stated: getCalendarWeek() is the ISO-8601 week number, in 1..53;
\* the days of January before week 1 get the last week number, 52 or 53,
\* of the previous week-year, up to three days of December get week 1;
\* 1995-01-01 is week 52 day 7, 1996-12-31 is week 1 day 2.
C6_Original == IsoWeekNumber({52, 53})

\* C6 as amended: the same, the last week number of the previous
\* week-year being 51 after the short year 1582 (1583-01-01 and -02).
C6_IsoWeekNumber ==
    /\ IsoWeekNumber({51, 52, 53})
    /\ Built /\ ValidTriple(date) /\ GetCalendarWeek(date) = 51
             /\ date.month = 1 => date.year = 1583

C6_Witness ==
    /\ pc = "built" /\ src.op = "triple"
    /\ date = Triple(1583, 1, 1)
    /\ GetCalendarWeek(date) = 51

\* C7: createFromWeekComponents fails when week < 1, week is above the
\* number of ISO weeks of wYear, or dayOfWeek is outside 1..7; it returns
\* no date of another week than the one requested.
C7_InvalidWeekRejected ==
    /\ Built /\ src.op = "week" /\ ~ValidWeekDate(src.a, src.b, src.c)
          => thrown
    /\ Built /\ src.op = "week" /\ ~thrown
          => GetCalendarWeek(date) = src.b /\ GetDayOfWeek(date) = src.c

\* C15: getMJD() is getJ2000Day() + 51544 for every date and counts the
\* days from 1858-11-17, whose modified Julian day is 0; 2000-01-01 has
\* day-count 0, so that DateComponents(J2000_EPOCH, offset) is
\* DateComponents(offset).
C15_EpochSanity ==
    /\ GetMJD(MODIFIED_JULIAN_EPOCH) = 0
    /\ GetJ2000Day(J2000_EPOCH) = 0
    /\ Built /\ date.month \in 1..12
          => /\ GetMJD(date) = GetJ2000Day(date) + 51544
             /\ GetMJD(date) = GetJ2000Day(date) - GetJ2000Day(MODIFIED_JULIAN_EPOCH)
    /\ Built /\ src.op = "offset"
          => /\ DateComponentsFrom(J2000_EPOCH, src.a) = DateComponents1(src.a)
             /\ DateComponentsFrom(J2000_EPOCH, src.a) = date

C15_Witness ==
    /\ pc = "built" /\ src.op = "offset" /\ src.a = -51544
    /\ date = MODIFIED_JULIAN_EPOCH
    /\ GetMJD(date) = 0
    /\ DateComponentsFrom(J2000_EPOCH, src.a) = date

\* C16, checked under SpecExtreme: the date built from INT_MAX is
\* 5881610-07-11, the date built from INT_MIN is -5877490-03-03, and
\* getJ2000Day() of each, as of the dates next to them, returns the
\* day-count it was built from, although the sums of
\* getLastJ2000DayOfYear(year - 1) leave the 32-bit range and wrap around.
C16_ExtremeDates ==
    Built /\ src.op = "offset"
        => /\ GetJ2000Day(date) = src.a
           /\ ValidTriple(date)
           /\ src.a < IntMax => DateComponents1(src.a + 1) = NextDate(date)
           /\ src.a = IntMax
                 => /\ date = Triple(5881610, 7, 11)
                    /\ IntMax - 365 * (date.year - 1) < CDiv(date.year - 1, 4)
           /\ src.a = IntMin
                 => /\ date = Triple(-5877490, 3, 3)
                    /\ ProlepticLastDay(date.year - 1) > 0

C16_Witness ==
    /\ pc = "built" /\ src.op = "offset" /\ src.a = IntMin
    /\ date = Triple(-5877490, 3, 3)
    /\ GetJ2000Day(date) = IntMin
    /\ ProlepticLastDay(date.year - 1) = 2147483586

\* the year estimate of GregorianFactory::getYear
GregorianEstimate(d) == LongQuotient(400, d, 292194288, 146097)

\* y is the one year z near it with lastDay(z - 1) < d <= lastDay(z)
YearBracket(f, d, y) ==
    \A z \in (y - 2)..(y + 2) :
        (GetLastJ2000DayOfYear(f, z - 1) < d /\ d <= GetLastJ2000DayOfYear(f, z))
            <=> z = y

\* C17: for each year factory and every day-count d of its regime
\* (proleptic Julian d <= -730122, Julian -730122 < d < -152384, Gregorian
\* d >= -152384), getYear(d) is the unique year y with
\* getLastJ2000DayOfYear(y - 1) < d <= getLastJ2000DayOfYear(y); the
\* Gregorian estimate is that year or the year after it.
C17_YearBracket ==
    Built /\ src.op = "offset"
        => LET d == src.a
               f == FactoryOfDay(d)
           IN  /\ f = "P" <=> d <= -730122
               /\ f = "G" <=> d >= -152384
               /\ date.year = GetYear(f, d)
               /\ YearBracket(f, d, GetYear(f, d))
               /\ f = "G" => GregorianEstimate(d) - GetYear(f, d) \in {0, 1}

FromReformDay(t) ==
    \/ t.year > 1582
    \/ t.year = 1582 /\ t.month > 10
    \/ t.year = 1582 /\ t.month = 10 /\ t.day >= 15

\* C19: getJ2000Day() uses the proleptic Julian factory iff year < 1, the
\* Gregorian factory iff (year, month, day) >= (1582, 10, 15) and the
\* Julian factory for every other triple, which is the factory the
\* day-count constructor selects for the day-count returned.
C19_RegimeSelection ==
    Built /\ src.op = "triple"
        => LET f == FactoryOfTriple(date)
           IN  /\ f = "P" <=> date.year < 1
               /\ f = "G" <=> FromReformDay(date)
               /\ f = "J" <=> date.year >= 1 /\ ~FromReformDay(date)
               /\ \A n \in J2000DayOutcomes(date) : FactoryOfDay(n) = f

\* the days of the months before month m of a leap or common year, from
\* the month lengths; the whole year for m = 13
RECURSIVE DaysBeforeMonth(_, _)
DaysBeforeMonth(leap, m) ==
    IF m <= 1 THEN 0
    ELSE DaysBeforeMonth(leap, m - 1)
           + MonthLength(IF leap THEN 2000 ELSE 2001, m - 1)

\* C20, checked under SpecFactory: for every day n of a leap (1..366) or
\* common (1..365) year getMonth(n) = (n < 32 ? 1 : (10 n + K) div 306),
\* K = 313 / 323, is the month m in 1..12 with table[m] < n <= table[m+1],
\* getDay(n, m) lies in 1..length of m, and getDayInYear gives n back.
C20_MonthDayExact ==
    pc = "built" /\ src.op = "monthDay"
        => LET leap == src.b = 1
               n    == src.a
               m    == cmp.month
           IN  /\ m = (IF n < 32 THEN 1
                       ELSE (10 * n + (IF leap THEN 313 ELSE 323)) \div 306)
               /\ m \in 1..12
               /\ DaysBeforeMonth(leap, m) < n /\ n <= DaysBeforeMonth(leap, m + 1)
               /\ PreviousMonthEndDay(leap, m) = DaysBeforeMonth(leap, m)
               /\ cmp.day \in 1..MonthLength(IF leap THEN 2000 ELSE 2001, m)
               /\ cmp.dayInYear = n

\* the last day of a leap year
C20_Witness ==
    /\ pc = "built" /\ src.op = "monthDay" /\ src.b = 1 /\ src.a = 366
    /\ cmp.month = 12 /\ cmp.day = 31 /\ cmp.dayInYear = 366

---------------------------------------------------------------------------
(* Claims on TimeComponents::fromSeconds, checked under SpecTime.          *)

IsNumber(x) == ~x.nan

\* 0 <= x < 1
InUnit(x) == IsNumber(x) /\ ~DLess(x, OfInt(0)) /\ DLess(x, OfInt(1))

LeapSecondCall ==
    /\ Built /\ src.op = "fromSeconds"
    /\ src.a = 86399 /\ InUnit(src.b) /\ src.c = OfInt(1) /\ src.d = 61

\* 60 + secondInDayB, as a real number and as the double nearest to it
SixtyPlus(b) == {Dbl(60 * Den + b.q, b.c, b.u), DAdd(OfInt(60), b)}

Documented(a, b, leap, minuteDuration) ==
    LET sum   == DAdd(OfInt(a), b)
        whole == DFloor(sum)
        inMin == DAdd(DSub(sum, OfInt(60 * (whole \div 60))), leap)
    IN  /\ ~DLess(sum, OfInt(0)) /\ DLess(sum, OfInt(86400))
        /\ ~DLess(inMin, OfInt(0)) /\ DLess(inMin, OfInt(minuteDuration))
        /\ IF minuteDuration >= 60
           THEN ~DLess(leap, OfInt(0)) /\ ~DLess(OfInt(minuteDuration - 60), leap)
           ELSE ~DLess(OfInt(0), leap) /\ ~DLess(leap, OfInt(minuteDuration - 60))

\* C9: fromSeconds fails whenever the documented inequalities do not hold,
\* so that every time constructed has hour in 0..23, minute in 0..59 and
\* second in [0, minuteDuration).
C9_OutOfRangeRejected ==
    Built /\ src.op = "fromSeconds" /\ IsNumber(src.b) /\ IsNumber(src.c)
        => /\ ~Documented(src.a, src.b, src.c, src.d) => thrown
           /\ ~thrown => /\ time.hour \in 0..23 /\ time.minute \in 0..59
                          /\ ~DLess(time.second, OfInt(0))
                          /\ DLess(time.second, OfInt(src.d))

\* C10: when secondInDayB or leap is a NaN, fromSeconds does not fail and
\* returns hour = secondInDayA div 3600, minute = (secondInDayA mod 3600)
\* div 60 and a NaN second.
C10_NaNFallback ==
    Built /\ src.op = "fromSeconds" /\ (src.b.nan \/ src.c.nan)
               /\ src.a \in 0..86399 /\ (IsNumber(src.b) => InUnit(src.b))
        => /\ ~thrown
           /\ time.hour = src.a \div 3600
           /\ time.minute = (src.a % 3600) \div 60
           /\ time.second.nan

\* secOfMinute + (leap + fractional) of a call with number arguments
RawSecond(a, b, leap) ==
    LET carry == DFloor(b)
        whole == a + carry
        secOfMinute == whole - 3600 * CDiv(whole, 3600)
                             - 60 * CDiv(whole - 3600 * CDiv(whole, 3600), 60)
    IN  DAdd(OfInt(secOfMinute), DAdd(leap, DSub(b, OfInt(carry))))

\* the largest double below the integer n: one last-place step under it
NextDown(n) == Dbl(n * Den, 0, -1)

\* C11: when rawSecond = secOfMinute + leap + fractional is a number and
\* is >= minuteDuration the stored second is nextDown(minuteDuration), the
\* largest double below minuteDuration; when rawSecond < minuteDuration it
\* is stored unchanged; in both cases the stored second is below
\* minuteDuration and hour and minute are those of the whole seconds.
C11_ClampNextDown ==
    Built /\ src.op = "fromSeconds" /\ IsNumber(src.b) /\ IsNumber(src.c)
        => LET raw   == RawSecond(src.a, src.b, src.c)
               whole == src.a + DFloor(src.b)
           IN  /\ ~DLess(raw, OfInt(src.d)) => time.second = NextDown(src.d)
               /\ DLess(raw, OfInt(src.d)) => time.second = raw
               /\ DLess(time.second, OfInt(src.d))
               /\ time.hour = CDiv(whole, 3600)
               /\ time.minute = CDiv(whole - 3600 * time.hour, 60)

---------------------------------------------------------------------------
(* Claims on DateTimeComponents, checked under SpecDateTime.               *)

\* the k with 86400 k <= s < 86400 (k + 1)
DayOf(s) ==
    CHOOSE k \in (-4)..4 :
        ~DLess(s, OfInt(86400 * k)) /\ DLess(s, OfInt(86400 * (k + 1)))

\* a shift of the reference src.a, src.b by src.c seconds gave date, time:
\* the day-count moved by k = floor(s / 86400), the UTC offset is that of
\* the reference, the local seconds of day are the double s - 86400 k and
\* lie between 0 and 86400, below 86400 when strict; 12:00:00 of
\* 2000-01-01 plus 86400 is 12:00:00 of 2000-01-02.
OffsetConstruction(strict) ==
    pc = "shifted" =>
        LET s     == DAdd(GetSecondsInLocalDay(src.b), src.c)
            k     == DayOf(s)
            local == GetSecondsInLocalDay(time)
        IN  /\ GetJ2000Day(date) = GetJ2000Day(src.a) + k
            /\ local = DSub(s, OfInt(86400 * k))
            /\ ~DLess(local, OfInt(0))
            /\ IF strict THEN DLess(local, OfInt(86400))
                         ELSE ~DLess(OfInt(86400), local)
            /\ time.minutesFromUTC = src.b.minutesFromUTC
            /\ src.a = Triple(2000, 1, 1) /\ src.b = Time(12, 0, OfInt(0), 0)
                  /\ src.c = OfInt(86400)
                  => date = Triple(2000, 1, 2) /\ time = Time(12, 0, OfInt(0), 0)
            /\ DLess(s, OfInt(0)) => GetJ2000Day(date) < GetJ2000Day(src.a)

RealOffset ==
    LET a == time
        b == other.time
    IN  Dbl(Den * (86400 * (GetJ2000Day(date) - GetJ2000Day(other.date))
                   + 3600 * (a.hour - b.hour)
                   + 60 * ((a.minute - a.minutesFromUTC)
                           - (b.minute - b.minutesFromUTC)))
            + (a.second.q - b.second.q),
            a.second.c - b.second.c,
            a.second.u - b.second.u)

\* x is the real number r up to the rounding of the double operations,
\* and is r when the seconds are multiples of 1/Den
UpToRounding(x, r) ==
    ~x.nan /\ x.q = r.q /\ x.c = r.c /\ (r.u = 0 => x.u = 0)

\* C13 as stated: for all date-times a and b, a.offsetFrom(b) ==
\* -(b.offsetFrom(a)) and a.offsetFrom(a) == 0, the value being 86400
\* (difference of day-counts) + (difference of UTC seconds in day).
C13_Original ==
    pc = "measured"
        => /\ DEq(cmp.ab, DNeg(cmp.ba))
           /\ DEq(cmp.aa, OfInt(0))
           /\ UpToRounding(cmp.ab, RealOffset)

\* C13 as amended: the same for date-times whose seconds are numbers;
\* when the second of either is a NaN both offsets are NaN, which
\* compares equal to nothing.
C13_OffsetFromAntisymmetric ==
    pc = "measured"
        => IF IsNumber(time.second) /\ IsNumber(other.time.second)
           THEN /\ DEq(cmp.ab, DNeg(cmp.ba))
                /\ DEq(cmp.aa, OfInt(0))
                /\ UpToRounding(cmp.ab, RealOffset)
           ELSE cmp.ab.nan /\ cmp.ba.nan /\ ~DEq(cmp.ab, DNeg(cmp.ba))

\* 2000-01-02T12:00:00 UTC-01:30 is 135000 s after 2000-01-01T01:00 UTC+01:00
C13_Witness ==
    /\ pc = "measured"
    /\ date = Triple(2000, 1, 2) /\ time = Time(12, 0, OfInt(0), -90)
    /\ other = DateTime(Triple(2000, 1, 1), Time(1, 0, OfInt(0), 60))
    /\ cmp.ab = OfInt(135000) /\ cmp.ba = OfInt(-135000)

\* C14: hashCode() is consistent with operator==: dates with equal
\* triples, times with equal hour, minute and offset from UTC and seconds
\* less than 1e-8 apart, and date-times equal in both components, have
\* equal hash codes.
C14_HashConsistent ==
    pc = "hashed"
        => /\ cmp.dateEq => cmp.dateHash = cmp.otherDateHash
           /\ cmp.timeEq => cmp.timeHash = cmp.otherTimeHash
           /\ cmp.eq => cmp.hash = cmp.otherHash

\* the offset is a whole number of seconds
WholeSeconds(x) ==
    IsNumber(x) /\ x.q % Den = 0 /\ x.c = 0 /\ x.u = 0 /\ x.t = 0

\* C21: for every reference r whose second is below 60 and every whole
\* offset N, DateTimeComponents(r, N).offsetFrom(r) == N, and
\* DateTimeComponents(r, 0) == r.
C21_OffsetInverse ==
    pc = "returned" /\ DLess(src.b.second, OfInt(60)) /\ WholeSeconds(src.c)
        => /\ DEq(cmp.back, src.c)
           /\ src.c = OfInt(0) => cmp.same

---------------------------------------------------------------------------
(* Claims on the seconds-of-day constructors, checked under SpecSeconds.   *)

\* lo <= x < hi
InRange(x, lo, hi) == IsNumber(x) /\ ~DLess(x, OfInt(lo)) /\ DLess(x, OfInt(hi))

\* TimeComponents(s) for 0 <= s < 86400 has hour in 0..23, minute in
\* 0..59, second in [0, 60), UTC offset 0 and getSecondsInLocalDay() == s;
\* for 86400 <= s < 86401 it has hour 23, minute 59 and second
\* 60 + (s - 86400) in [60, 61)
SingleScalar ==
    /\ pc \in {"built", "measured"} /\ src.op = "seconds"
          /\ InRange(src.b, 0, JULIAN_DAY)
          => /\ time.hour \in 0..23 /\ time.minute \in 0..59
             /\ InRange(time.second, 0, 60)
             /\ time.minutesFromUTC = 0
             /\ pc = "measured" => DEq(cmp.local, src.b)
    /\ pc \in {"built", "measured"} /\ src.op = "seconds"
          /\ InRange(src.b, JULIAN_DAY, JULIAN_DAY + 1)
          => /\ time.hour = 23 /\ time.minute = 59
             /\ time.second = Dbl(60 * Den + (src.b.q - Den * JULIAN_DAY), 0, 0)
             /\ InRange(time.second, 60, 61)
             /\ time.minutesFromUTC = 0

===========================================================================
